---- MODULE Spec2Model ----
(***************************************************************************)
(* Model of the Python execution channel of querybook's webapp:            *)
(*   lib/web-worker/python-worker.ts  (client: runPythonCode)              *)
(*   the pyodide worker script        (worker: self.onmessage)             *)
(* Client and worker are two event loops joined by two FIFO message        *)
(* channels.  Every async handler of the worker is a process of its own    *)
(* that is suspended at each await and resumed in any order.               *)
(***************************************************************************)
EXTENDS Integers, Sequences, FiniteSets, TLC

\* ---------------------------------------------------------------- bounds
MaxCalls == 2
MaxTicks == 1
ClockStart == 9

Calls == 1..MaxCalls
Instances == 1..MaxCalls

\* ------------------------------------------------------------ JS values
\* values are tagged: a number n, undefined (Python's None), or no binding
Number(n) == [type |-> "number", n |-> n]
Undefined == [type |-> "undefined", n |-> 0]
Unbound == [type |-> "unbound", n |-> 0]
NoId == <<>>

TypeErrorNullWorker == "TypeError: Cannot read properties of null (reading 'addEventListener')"
TypeErrorToString == "TypeError: Cannot read properties of undefined (reading 'toString')"
NameErrorX == "PythonError: NameError: name 'x' is not defined"
TestError == "PythonError: Exception: Test error"

Programs == {"x = 1", "x", "1 + 1", "raise Exception(\"Test error\")"}

Digit(d) ==
  CASE d = 0 -> "0" [] d = 1 -> "1" [] d = 2 -> "2" [] d = 3 -> "3"
    [] d = 4 -> "4" [] d = 5 -> "5" [] d = 6 -> "6" [] d = 7 -> "7"
    [] d = 8 -> "8" [] d = 9 -> "9"

RECURSIVE NumberToString(_)
\* Number.prototype.toString() of a non-negative integer: its decimal digits
NumberToString(n) ==
  IF n < 10 THEN <<Digit(n)>>
  ELSE NumberToString(n \div 10) \o <<Digit(n % 10)>>

\* const id = Date.now().toString();
NewId(clock) == NumberToString(clock)

\* pyodide.runPythonAsync(python) against a namespace: the value of the last
\* expression (None is converted to undefined), or a raised PythonError
runPythonAsync(python, names) ==
  CASE python = "x = 1" ->
         [raised |-> FALSE, value |-> Undefined, fault |-> "", names |-> [names EXCEPT !.x = Number(1)]]
    [] python = "x" ->
         IF names.x = Unbound
         THEN [raised |-> TRUE, value |-> Undefined, fault |-> NameErrorX, names |-> names]
         ELSE [raised |-> FALSE, value |-> names.x, fault |-> "", names |-> names]
    [] python = "1 + 1" ->
         [raised |-> FALSE, value |-> Number(2), fault |-> "", names |-> names]
    [] OTHER ->
         [raised |-> TRUE, value |-> Undefined, fault |-> TestError, names |-> names]

\* result.toString(): throws a TypeError when result is undefined
ResultToString(value) ==
  IF value = Undefined
  THEN [threw |-> TRUE, str |-> <<>>, fault |-> TypeErrorToString]
  ELSE [threw |-> FALSE, str |-> NumberToString(value.n), fault |-> ""]

\* -------------------------------------------------------------- messages
Request(id, python, c) == [id |-> id, python |-> python, src |-> c]

Response(id, status, result, error, c) ==
  [id |-> id, status |-> status, result |-> result, error |-> error, src |-> c]

\* -------------------------------------------------------------- promises
Pending == [state |-> "pending", value |-> <<>>, message |-> "", src |-> 0]

\* resolve(v) / reject(e) of a promise: only the first call has an effect
resolve(p, v, c) ==
  IF p.state = "pending"
  THEN [state |-> "fulfilled", value |-> v, message |-> "", src |-> c]
  ELSE p

reject(p, msg, c) ==
  IF p.state = "pending"
  THEN [state |-> "rejected", value |-> <<>>, message |-> msg, src |-> c]
  ELSE p

VARIABLES
  pyodideWorker,  \* "Worker" or "null": the module-level worker handle
  now,            \* Date.now()
  nCalls,         \* number of runPythonCode calls made so far
  callId,         \* call -> the id its closure holds
  callPython,     \* call -> the code it submitted
  listener,       \* call -> its handleMessage is registered on the worker
  promise,        \* call -> the promise runPythonCode returned
  toWorker,       \* messages posted by the client, not yet handled
  toClient,       \* messages posted by the worker, not yet dispatched
  pyodide,        \* the worker's module-level handle: 0 (undefined) or an instance
  nInstances,     \* interpreter instances created so far
  packages,       \* instance -> packages loaded into it
  namespace,      \* instance -> its name bindings
  pc,             \* call -> where the worker's handler for its request stands
  target,         \* call -> the instance its pending library call runs on
  data,           \* call -> the { id, python } its handler destructured
  setupBy,        \* requests whose handler entered the one-time setup
  outcome,        \* call -> what evaluating its code did (history)
  emitted,        \* every response the worker has posted, in order (history)
  afterFailure,   \* requests whose handler began after a setup step had failed (history)
  afterFault,     \* requests whose handler began after an evaluation had raised (history)
  context,        \* Python cell: props.context, the code in the editor
  cellRuns,       \* Python cell: one record per invocation of its run handler
  createCalls,    \* Python cell: the calls of createQueryExecution, in order
  consoleErrors,  \* Python cell: number of console.error calls
  searchState,    \* search and replace: the state of useSearchAndReplace
  jumped,         \* search and replace: the arguments given to jumpToResult
  lastOp          \* search and replace: the last operation and the state before it (history)

clientVars == <<pyodideWorker, now, nCalls, callId, callPython, listener, promise>>
workerVars == <<pyodide, nInstances, packages, namespace, pc, target, data, setupBy,
                outcome, emitted, afterFailure, afterFault>>
execVars == <<pyodideWorker, now, nCalls, callId, callPython, listener, promise,
              toWorker, toClient, pyodide, nInstances, packages, namespace, pc,
              target, data, setupBy, outcome, emitted, afterFailure, afterFault>>
cellVars == <<context, cellRuns, createCalls, consoleErrors>>
searchVars == <<searchState, jumped, lastOp>>
vars == <<execVars, cellVars, searchVars>>

\* const initialSearchState
initialSearchState ==
  [searchString |-> "", replaceString |-> "", searchResults |-> <<>>,
   currentSearchResultIndex |-> 0,
   searchOptions |-> [matchCase |-> FALSE, useRegex |-> FALSE]]

Init ==
  /\ pyodideWorker \in {"Worker", "null"}
  /\ now = ClockStart
  /\ nCalls = 0
  /\ callId = [c \in Calls |-> NoId]
  /\ callPython = [c \in Calls |-> ""]
  /\ listener = [c \in Calls |-> FALSE]
  /\ promise = [c \in Calls |-> Pending]
  /\ toWorker = <<>>
  /\ toClient = <<>>
  /\ pyodide = 0
  /\ nInstances = 0
  /\ packages = [i \in Instances |-> {}]
  /\ namespace = [i \in Instances |-> [x |-> Unbound]]
  /\ pc = [c \in Calls |-> "idle"]
  /\ target = [c \in Calls |-> 0]
  /\ data = [c \in Calls |-> [id |-> NoId, python |-> ""]]
  /\ setupBy = {}
  /\ outcome = [c \in Calls |-> [state |-> "none", value |-> Undefined, fault |-> ""]]
  /\ emitted = <<>>
  /\ afterFailure = {}
  /\ afterFault = {}
  /\ context = ""
  /\ cellRuns = <<>>
  /\ createCalls = <<>>
  /\ consoleErrors = 0
  /\ searchState = initialSearchState
  /\ jumped = <<>>
  /\ lastOp = [op |-> "none", delta |-> 0, before |-> initialSearchState]

\* ---------------------------------------------------------------- client
\* the clock advances between two events of the page
Tick ==
  /\ now < ClockStart + MaxTicks
  /\ now' = now + 1
  /\ UNCHANGED <<pyodideWorker, nCalls, callId, callPython, listener, promise,
                 toWorker, toClient, pyodide, nInstances, packages, namespace,
                 pc, target, data, setupBy, outcome, emitted, afterFailure, afterFault,
                 cellVars, searchVars>>

\* variant: the null handle is not noticed and the executor carries on
ExecutorThrows_Never(worker) == FALSE

\* pyodideWorker.addEventListener on a null handle throws inside the executor
ExecutorThrows(worker) == worker = "null"

\* variant: the listener does not compare ids
IdMatches_Any(m, id) == TRUE

\* event.data.id === id
IdMatches(m, id) == m.id = id

\* status values on which handleMessage deregisters itself and settles
\* variant: 'running' is taken for the final answer
IsComplete_OrRunning(m) == m.status \in {"complete", "running"}

IsComplete(m) == m.status = "complete"

\* variant: the handler has no branch for 'error'
IsError_Never(m) == FALSE

\* variant: every status other than 'complete' is taken for a failure
IsError_NotComplete(m) == m.status # "complete"

IsError(m) == m.status = "error"

\* variant: the handler never deregisters itself and settles on every
\* terminal response it sees
handleMessage_NoDeregister(c, m) ==
  IF listener[c] /\ IdMatches(m, callId[c])
  THEN IF IsComplete(m)
       THEN [listener |-> TRUE,
             promise |-> [state |-> "fulfilled", value |-> m.result, message |-> "", src |-> m.src]]
       ELSE IF IsError(m)
       THEN [listener |-> TRUE,
             promise |-> [state |-> "rejected", value |-> <<>>, message |-> m.error, src |-> m.src]]
       ELSE [listener |-> listener[c], promise |-> promise[c]]
  ELSE [listener |-> listener[c], promise |-> promise[c]]

\* handleMessage of one call, applied to one dispatched message
handleMessage(c, m) ==
  IF listener[c] /\ IdMatches(m, callId[c])
  THEN IF IsComplete(m)
       THEN [listener |-> FALSE, promise |-> resolve(promise[c], m.result, m.src)]
       ELSE IF IsError(m)
       THEN [listener |-> FALSE, promise |-> reject(promise[c], m.error, m.src)]
       ELSE [listener |-> listener[c], promise |-> promise[c]]
  ELSE [listener |-> listener[c], promise |-> promise[c]]

\* variant: the listener is not registered on the worker
addEventListener_Missed(listeners, c) == listeners

\* pyodideWorker.addEventListener('message', handleMessage)
addEventListener(listeners, c) == [listeners EXCEPT ![c] = TRUE]

\* runPythonCode(python): the promise executor runs synchronously
runPythonCode(python) ==
  /\ nCalls < MaxCalls
  /\ LET c == nCalls + 1
         id == NewId(now)
     IN /\ nCalls' = c
        /\ callId' = [callId EXCEPT ![c] = id]
        /\ callPython' = [callPython EXCEPT ![c] = python]
        /\ IF ExecutorThrows(pyodideWorker)
           THEN /\ promise' = [promise EXCEPT ![c] = reject(@, TypeErrorNullWorker, c)]
                /\ UNCHANGED <<listener, toWorker>>
           ELSE /\ listener' = addEventListener(listener, c)
                /\ toWorker' = Append(toWorker, Request(id, python, c))
                /\ UNCHANGED promise
  /\ UNCHANGED <<pyodideWorker, now, toClient, pyodide, nInstances, packages,
                 namespace, pc, target, data, setupBy, outcome, emitted, afterFailure, afterFault,
                 cellVars, searchVars>>

\* the worker's next 'message' event is dispatched to every registered listener
Dispatch ==
  /\ toClient # <<>>
  /\ LET m == Head(toClient)
     IN /\ listener' = [c \in Calls |-> handleMessage(c, m).listener]
        /\ promise' = [c \in Calls |-> handleMessage(c, m).promise]
  /\ toClient' = Tail(toClient)
  /\ UNCHANGED <<pyodideWorker, now, nCalls, callId, callPython, toWorker,
                 pyodide, nInstances, packages, namespace, pc, target, data,
                 setupBy, outcome, emitted, afterFailure, afterFault,
                 cellVars, searchVars>>

\* ---------------------------------------------------------------- worker
\* variant: the handle is not consulted and every request runs the setup
NeedsSetup_Always(handle) == TRUE

\* variant: the 'running' notification is never posted
postMessage_NoRunning(m) ==
  IF m.status = "running"
  THEN UNCHANGED <<toClient, emitted>>
  ELSE /\ toClient' = Append(toClient, m)
       /\ emitted' = Append(emitted, m)

\* variant: errors are not reported to the client
postMessage_NoError(m) ==
  IF m.status = "error"
  THEN UNCHANGED <<toClient, emitted>>
  ELSE /\ toClient' = Append(toClient, m)
       /\ emitted' = Append(emitted, m)

\* self.postMessage(m): m joins the channel to the client
postMessage(m) ==
  /\ toClient' = Append(toClient, m)
  /\ emitted' = Append(emitted, m)

\* variant: id and python live in one place shared by all handlers, which
\* holds what the request received last put there
eventData_Shared(c) ==
  data[CHOOSE d \in Calls :
         pc[d] # "idle" /\ \A e \in Calls : pc[e] # "idle" => e <= d]

\* const { id, python } = event.data: each handler's own constants
eventData(c) == data[c]

\* if (!pyodide)
NeedsSetup(handle) == handle = 0

\* self.onmessage runs up to its first await
OnMessage ==
  /\ toWorker # <<>>
  /\ LET req == Head(toWorker)
         c == req.src
     IN /\ data' = [data EXCEPT ![c] = [id |-> req.id, python |-> req.python]]
        /\ afterFailure' = IF \E d \in Calls : pc[d] = "failed"
                           THEN afterFailure \cup {c} ELSE afterFailure
        /\ afterFault' = IF \E d \in Calls : outcome[d].state = "raised"
                         THEN afterFault \cup {c} ELSE afterFault
        /\ IF NeedsSetup(pyodide)
           THEN /\ postMessage(Response(req.id, "loading", <<>>, "", c))
                /\ pc' = [pc EXCEPT ![c] = "loadPyodide"]
                /\ setupBy' = setupBy \cup {c}
                /\ UNCHANGED target
           ELSE /\ postMessage(Response(req.id, "running", <<>>, "", c))
                /\ pc' = [pc EXCEPT ![c] = "runPythonAsync"]
                /\ target' = [target EXCEPT ![c] = pyodide]
                /\ UNCHANGED setupBy
  /\ toWorker' = Tail(toWorker)
  /\ UNCHANGED <<pyodideWorker, now, nCalls, callId, callPython, listener,
                 promise, pyodide, nInstances, packages, namespace, outcome,
                 cellVars, searchVars>>

\* pyodide = await loadPyodide(...) resolves; the handler goes on to
\* pyodide.loadPackage('numpy')
LoadPyodideResolves(c) ==
  /\ pc[c] = "loadPyodide"
  /\ nInstances' = nInstances + 1
  /\ pyodide' = nInstances + 1
  /\ target' = [target EXCEPT ![c] = nInstances + 1]
  /\ pc' = [pc EXCEPT ![c] = "loadNumpy"]
  /\ UNCHANGED <<pyodideWorker, now, nCalls, callId, callPython, listener,
                 promise, toWorker, toClient, packages, namespace, data,
                 setupBy, outcome, emitted, afterFailure, afterFault,
                 cellVars, searchVars>>

\* an awaited setup step rejects outside the try block: the handler ends
\* with an unhandled rejection and posts nothing
SetupRejects(c) ==
  /\ pc[c] \in {"loadPyodide", "loadNumpy", "loadPandas"}
  /\ pc' = [pc EXCEPT ![c] = "failed"]
  /\ UNCHANGED <<pyodideWorker, now, nCalls, callId, callPython, listener,
                 promise, toWorker, toClient, pyodide, nInstances, packages,
                 namespace, target, data, setupBy, outcome, emitted, afterFailure, afterFault,
                 cellVars, searchVars>>

\* await pyodide.loadPackage('numpy') resolves; the handler goes on to
\* pyodide.loadPackage('pandas') on the handle as it is now
LoadNumpyResolves(c) ==
  /\ pc[c] = "loadNumpy"
  /\ packages' = [packages EXCEPT ![target[c]] = @ \cup {"numpy"}]
  /\ target' = [target EXCEPT ![c] = pyodide]
  /\ pc' = [pc EXCEPT ![c] = "loadPandas"]
  /\ UNCHANGED <<pyodideWorker, now, nCalls, callId, callPython, listener,
                 promise, toWorker, toClient, pyodide, nInstances, namespace,
                 data, setupBy, outcome, emitted, afterFailure, afterFault,
                 cellVars, searchVars>>

\* await pyodide.loadPackage('pandas') resolves; the handler enters the try
\* block, posts 'running' and calls pyodide.runPythonAsync(python)
LoadPandasResolves(c) ==
  /\ pc[c] = "loadPandas"
  /\ packages' = [packages EXCEPT ![target[c]] = @ \cup {"pandas"}]
  /\ postMessage(Response(eventData(c).id, "running", <<>>, "", c))
  /\ target' = [target EXCEPT ![c] = pyodide]
  /\ pc' = [pc EXCEPT ![c] = "runPythonAsync"]
  /\ UNCHANGED <<pyodideWorker, now, nCalls, callId, callPython, listener,
                 promise, toWorker, pyodide, nInstances, namespace, data,
                 setupBy, outcome, afterFailure, afterFault,
                 cellVars, searchVars>>

\* await pyodide.runPythonAsync(python) settles: the code has run against the
\* instance's namespace; the handler posts 'complete' with result.toString(),
\* or 'error' with the stringified fault of whatever the try block threw
RunPythonAsyncSettles(c) ==
  /\ pc[c] = "runPythonAsync"
  /\ LET r == runPythonAsync(eventData(c).python, namespace[target[c]])
         s == ResultToString(r.value)
     IN /\ namespace' = [namespace EXCEPT ![target[c]] = r.names]
        /\ postMessage(
              IF r.raised THEN Response(eventData(c).id, "error", <<>>, r.fault, c)
              ELSE IF s.threw THEN Response(eventData(c).id, "error", <<>>, s.fault, c)
              ELSE Response(eventData(c).id, "complete", s.str, "", c))
        /\ outcome' = [outcome EXCEPT ![c] =
              [state |-> IF r.raised THEN "raised" ELSE "returned",
               value |-> r.value, fault |-> r.fault]]
  /\ pc' = [pc EXCEPT ![c] = "done"]
  /\ UNCHANGED <<pyodideWorker, now, nCalls, callId, callPython, listener,
                 promise, toWorker, pyodide, nInstances, packages, target,
                 data, setupBy, afterFailure, afterFault,
                 cellVars, searchVars>>

Next ==
  \/ Tick
  \/ \E python \in Programs : runPythonCode(python)
  \/ Dispatch
  \/ OnMessage
  \/ \E c \in Calls : LoadPyodideResolves(c)
  \/ \E c \in Calls : SetupRejects(c)
  \/ \E c \in Calls : LoadNumpyResolves(c)
  \/ \E c \in Calls : LoadPandasResolves(c)
  \/ \E c \in Calls : RunPythonAsyncSettles(c)

Spec == Init /\ [][Next]_vars

\* ------------------------------------------ strictly sequential submission
\* a caller that awaits each promise before it calls runPythonCode again
runPythonCodeAfterSettled(python) ==
  /\ \A c \in 1..nCalls : promise[c].state # "pending"
  /\ runPythonCode(python)

SeqInit == Init /\ pyodideWorker = "Worker"

SeqNext ==
  \/ Tick
  \/ \E python \in Programs : runPythonCodeAfterSettled(python)
  \/ Dispatch
  \/ OnMessage
  \/ \E c \in Calls : LoadPyodideResolves(c)
  \/ \E c \in Calls : SetupRejects(c)
  \/ \E c \in Calls : LoadNumpyResolves(c)
  \/ \E c \in Calls : LoadPandasResolves(c)
  \/ \E c \in Calls : RunPythonAsyncSettles(c)

SeqSpec == SeqInit /\ [][SeqNext]_vars

\* ------------------------------------------------------------ properties
Made == 1..nCalls
Settled(c) == promise[c].state \in {"fulfilled", "rejected"}
IsTerminal(m) == m.status \in {"complete", "error"}
Dispatching == toClient # <<>> /\ toClient' = Tail(toClient)

\* the string a value is written as
StringOf(v) == IF v.type = "number" THEN NumberToString(v.n) ELSE <<"N", "o", "n", "e">>

\* C1: a call whose code evaluated without raising, whatever the value
\* (None included), is never rejected, and when fulfilled it is fulfilled
\* with the string representation of that value.
C1_ReturnedIsFulfilled ==
  \A c \in Made :
    outcome[c].state = "returned" =>
      /\ promise[c].state # "rejected"
      /\ promise[c].state = "fulfilled" => promise[c].value = StringOf(outcome[c].value)

\* C2: a call whose code raised is never fulfilled, and when rejected the
\* Error's message is the stringified fault of its own evaluation.
C2_RaisedIsRejected ==
  \A c \in Made :
    outcome[c].state = "raised" =>
      /\ promise[c].state # "fulfilled"
      /\ promise[c].state = "rejected" => promise[c].message = outcome[c].fault

\* C3: every settled promise was settled by the response to its own request,
\* never by the response to another call's request.
C3_OwnOutcome ==
  \A c \in Made : Settled(c) => promise[c].src = c

\* C4: no two calls that are pending at the same time hold the same id.
C4_PendingIdsDiffer ==
  \A c, d \in Made :
    (c # d /\ listener[c] /\ listener[d]) => callId[c] # callId[d]

\* C5: dispatching a response leaves the promise and the listener of every
\* call with a different id as they were; a response whose id no registered
\* listener holds changes no promise and no listener.
C5_CorrelationIsolation ==
  [][Dispatching =>
       LET m == Head(toClient)
       IN /\ \A c \in Calls :
               callId[c] # m.id => (promise'[c] = promise[c] /\ listener'[c] = listener[c])
          /\ (\A c \in Calls : listener[c] => callId[c] # m.id)
               => UNCHANGED <<promise, listener>>]_vars

\* an earlier call is still pending, with its listener, after a later call
\* with another id was settled by its own response
C5_Witness ==
  \E c, d \in Made :
    /\ c < d /\ callId[c] # callId[d]
    /\ listener[c] /\ promise[c].state = "pending"
    /\ Settled(d) /\ promise[d].src = d

\* C6: with calls made one after the other, each after the previous one
\* settled, only the first request enters the setup, one interpreter is
\* created, and once any call has settled the setup has run in full.
C6_SetupOnceSequential ==
  /\ setupBy \subseteq {1}
  /\ nInstances <= 1
  /\ \A c \in Made :
       (Settled(c) \/ pc[c] \in {"runPythonAsync", "done"}) =>
         (setupBy = {1} /\ nInstances = 1 /\ pyodide = 1
            /\ packages[1] = {"numpy", "pandas"})

\* a second call has settled after the first one
C6_Witness ==
  /\ nCalls >= 2
  /\ Settled(1) /\ Settled(2)
  /\ pc[2] = "done"

\* C7: the interpreter is created at most once and the handle, once set, is
\* never replaced or cleared.
C7_SingleInterpreter ==
  [][(pyodide # 0 => pyodide' = pyodide) /\ nInstances' <= 1]_vars

\* C8: a binding of x made in the interpreter the worker's handle refers to
\* is still there, in the interpreter the handle refers to, after every step.
C8_NamespacePersists ==
  [][(pyodide # 0 /\ namespace[pyodide].x = Number(1))
       => (pyodide' # 0 /\ namespace'[pyodide'].x = Number(1))]_vars

\* C9: without a worker every call made is already rejected, no request has
\* been posted and no listener is registered.
C9_NoWorkerRejects ==
  pyodideWorker = "null" =>
    /\ \A c \in Made :
         promise[c].state = "rejected" /\ promise[c].message = TypeErrorNullWorker
    /\ \A c \in Calls : ~listener[c]
    /\ toWorker = <<>>

C9_Witness == pyodideWorker = "null" /\ nCalls >= 1

\* C10: with a worker, a call's listener is registered exactly while its
\* promise is pending; it is removed only by the dispatch of a 'complete' or
\* 'error' response with its id, and that dispatch does remove it.
C10_PendingEntryLifetime ==
  [][/\ \A c \in Calls :
          /\ (listener[c] /\ ~listener'[c]) =>
                (Dispatching /\ Head(toClient).id = callId[c] /\ IsTerminal(Head(toClient)))
          /\ (listener[c] /\ Dispatching /\ Head(toClient).id = callId[c]
                 /\ IsTerminal(Head(toClient))) => ~listener'[c]
     /\ pyodideWorker = "Worker" =>
          \A c \in Calls :
            listener'[c] <=> (c <= nCalls' /\ promise'[c].state = "pending")]_vars

\* every call made has settled on its own response and no listener is left
C10_Witness ==
  /\ pyodideWorker = "Worker"
  /\ nCalls = MaxCalls
  /\ \A c \in Made : Settled(c) /\ promise[c].src = c
  /\ \A c \in Calls : ~listener[c]

\* ------------------------------------------------- properties, continued
Log == 1..Len(emitted)

\* the responses already dispatched to the client's listeners
Observed == 1..(Len(emitted) - Len(toClient))

InFlight == {"loadPyodide", "loadNumpy", "loadPandas", "runPythonAsync"}

\* C11: a pending promise of a call leaves the pending state only in the
\* dispatch of a 'complete' or 'error' response with the call's id; the
\* dispatch of a 'loading' or 'running' response changes no promise.
C11_OnlyTerminalSettles ==
  [][/\ \A c \in 1..nCalls :
          (promise[c].state = "pending" /\ promise'[c].state # "pending") =>
            (Dispatching /\ Head(toClient).id = callId[c] /\ IsTerminal(Head(toClient)))
     /\ (Dispatching /\ ~IsTerminal(Head(toClient))) => promise' = promise]_vars

\* 'loading' and 'running' of a call were both dispatched and it is pending
C11_Witness ==
  \E c \in Made :
    /\ c \in setupBy /\ pc[c] = "runPythonAsync"
    /\ toClient = <<>>
    /\ listener[c] /\ promise[c].state = "pending"

\* C12: a settled promise never changes again, and the listener of a settled
\* call is not registered, so a further terminal response with the same id
\* reaches no handler of that call.
C12_SettledOnce ==
  [][\A c \in Calls :
       Settled(c) => (promise'[c] = promise[c] /\ ~listener[c] /\ ~listener'[c])]_vars

\* two terminal responses with one id were dispatched: the first settled
\* both calls holding that id, the second was ignored
C12_Witness ==
  \E c, d \in Made :
    /\ c # d /\ callId[c] = callId[d]
    /\ pc[c] = "done" /\ pc[d] = "done" /\ toClient = <<>>
    /\ Settled(c) /\ Settled(d) /\ promise[c].src = promise[d].src

\* C13: when the handler of a request begins, the handler of every request
\* that began before it has emitted its terminal response.
C13_StrictlySequential ==
  [][\A d \in Calls :
       (pc[d] = "idle" /\ pc'[d] # "idle") =>
         \A c \in Calls \ {d} : pc[c] \in {"idle", "done"}]_vars

\* C14: among the responses emitted with one id, nothing follows a terminal
\* response, 'loading' follows nothing, and a terminal response is preceded
\* by 'running'.
C14_OrderPerId ==
  /\ \A i, j \in Log :
       (i < j /\ emitted[i].id = emitted[j].id) =>
         (~IsTerminal(emitted[i]) /\ emitted[j].status # "loading")
  /\ \A j \in Log :
       IsTerminal(emitted[j]) =>
         \E i \in Log : i < j /\ emitted[i].id = emitted[j].id /\ emitted[i].status = "running"

\* The same order counted per request instead of per id (it holds, also when
\* two requests carry one id): among the responses emitted while handling one
\* request, nothing follows the terminal response, 'loading' follows nothing,
\* 'running' is emitted once, and the terminal response is preceded by
\* 'running'.
OrderPerRequest ==
  /\ \A i, j \in Log :
       (i < j /\ emitted[i].src = emitted[j].src) =>
         /\ ~IsTerminal(emitted[i])
         /\ emitted[j].status # "loading"
         /\ ~(emitted[i].status = "running" /\ emitted[j].status = "running")
  /\ \A j \in Log :
       IsTerminal(emitted[j]) =>
         \E i \in Log :
           i < j /\ emitted[i].src = emitted[j].src /\ emitted[i].status = "running"
  /\ \A c \in Calls :
       pc[c] = "done" => \E j \in Log : emitted[j].src = c /\ IsTerminal(emitted[j])

\* two requests that carry one id have both been answered in full, one of
\* them after running the setup
OrderPerRequest_Witness ==
  \E c, d \in Made :
    /\ c # d /\ callId[c] = callId[d]
    /\ c \in setupBy
    /\ pc[c] = "done" /\ pc[d] = "done"

\* C15: a request whose setup step failed has been answered with an 'error'
\* response carrying its id.
C15_SetupFaultReported ==
  \A c \in Calls :
    pc[c] = "failed" =>
      \E i \in Log : emitted[i].id = data[c].id /\ emitted[i].status = "error"

\* C16: a request whose handling began after a setup step had failed never
\* enters the setup and is never answered with 'complete'.
C16_TerminalErrorState ==
  \A d \in afterFailure :
    /\ d \notin setupBy
    /\ \A i \in Log : ~(emitted[i].src = d /\ emitted[i].status = "complete")

\* C17: with a worker, a call for whose id no terminal response has been
\* dispatched is pending and its listener is registered, whatever else the
\* client has done since.
C17_NoTimeout ==
  pyodideWorker = "Worker" =>
    \A c \in Made :
      (\A i \in Observed : ~(emitted[i].id = callId[c] /\ IsTerminal(emitted[i])))
        => (promise[c].state = "pending" /\ listener[c])

\* everything has come to rest and a call whose setup failed is still pending
C17_Witness ==
  \E c \in Made :
    /\ pc[c] = "failed"
    /\ nCalls = MaxCalls /\ toWorker = <<>> /\ toClient = <<>>
    /\ \A d \in Calls : pc[d] \notin InFlight
    /\ promise[c].state = "pending" /\ listener[c]

\* C18: every request and every response in a channel, and every request
\* being handled, belongs to a call whose listener is registered, unless the
\* call has settled already.
C18_ListenerBeforePost ==
  /\ \A i \in 1..Len(toWorker) :
       listener[toWorker[i].src] \/ Settled(toWorker[i].src)
  /\ \A i \in 1..Len(toClient) :
       listener[toClient[i].src] \/ Settled(toClient[i].src)
  /\ \A c \in Calls : pc[c] # "idle" => (listener[c] \/ Settled(c))

\* the first response to a call is about to be dispatched to its listener
C18_Witness ==
  /\ toClient # <<>>
  /\ Len(emitted) = Len(toClient)
  /\ listener[Head(toClient).src]
  /\ promise[Head(toClient).src].state = "pending"

\* C19: code is evaluated only on an interpreter into which both packages
\* have been loaded.
C19_EvalAfterSetup ==
  \A c \in Calls :
    pc[c] = "runPythonAsync" => packages[target[c]] = {"numpy", "pandas"}

\* C20: at most one 'loading' response is ever emitted, and it is the first
\* response the worker emits.
C20_SingleLoading ==
  /\ Cardinality({i \in Log : emitted[i].status = "loading"}) <= 1
  /\ \A i \in Log : emitted[i].status = "loading" => i = 1

\* C21: an evaluation that raises leaves the interpreter handle as it was,
\* and a request whose handling begins after an evaluation has raised never
\* enters the setup and, when its code evaluates without raising, is
\* answered with 'complete'.
C21_ReadyAfterFault ==
  [][/\ \A c \in Calls :
          (pc[c] = "runPythonAsync" /\ pc'[c] = "done" /\ outcome'[c].state = "raised")
            => pyodide' = pyodide
     /\ \A d \in afterFault' :
          /\ d \notin setupBy'
          /\ outcome'[d].state = "returned" =>
               \E i \in 1..Len(emitted') :
                 emitted'[i].src = d /\ emitted'[i].status = "complete"]_vars

\* C22: a request whose evaluation has returned or raised has been answered
\* with exactly one terminal response, which carries its id; a request that
\* is still being handled has been answered with none.
C22_ExactlyOneTerminal ==
  \A c \in Calls :
    LET answers == {i \in Log : emitted[i].src = c /\ IsTerminal(emitted[i])}
    IN /\ pc[c] = "done" =>
            (Cardinality(answers) = 1 /\ \A i \in answers : emitted[i].id = callId[c])
       /\ pc[c] # "done" => answers = {}
       /\ (pc[c] = "done") <=> (outcome[c].state # "none")

\* one request has been answered with 'complete' and another with 'error'
C22_Witness ==
  \E c, d \in Calls :
    /\ pc[c] = "done" /\ pc[d] = "done"
    /\ \E i \in Log : emitted[i].src = c /\ emitted[i].status = "complete"
    /\ \E i \in Log : emitted[i].src = d /\ emitted[i].status = "error"
    /\ outcome[d].state = "raised"

\* C24: every response emitted by the handler of a request carries the id
\* of that request.
C24_OwnId ==
  \A i \in Log : emitted[i].id = callId[emitted[i].src]

\* the handlers of two requests with different ids have emitted responses
\* in turn: one, the other, the first again
C24_Witness ==
  \E i, j, k \in Log :
    /\ i < j /\ j < k
    /\ emitted[i].src = emitted[k].src
    /\ emitted[i].src # emitted[j].src
    /\ emitted[i].id # emitted[j].id

\* ------------------------------------------------ fair, fault-free setup
\* The worker exists and no setup step fails.  Both event loops keep
\* dispatching queued messages, and every awaited library call of the
\* worker settles: weak fairness on each of those steps.
LiveInit == Init /\ pyodideWorker = "Worker"

LiveNext ==
  \/ Tick
  \/ \E python \in Programs : runPythonCode(python)
  \/ Dispatch
  \/ OnMessage
  \/ \E c \in Calls : LoadPyodideResolves(c)
  \/ \E c \in Calls : LoadNumpyResolves(c)
  \/ \E c \in Calls : LoadPandasResolves(c)
  \/ \E c \in Calls : RunPythonAsyncSettles(c)

Fairness ==
  /\ WF_vars(Dispatch)
  /\ WF_vars(OnMessage)
  /\ \A c \in Calls : WF_vars(LoadPyodideResolves(c))
  /\ \A c \in Calls : WF_vars(LoadNumpyResolves(c))
  /\ \A c \in Calls : WF_vars(LoadPandasResolves(c))
  /\ \A c \in Calls : WF_vars(RunPythonAsyncSettles(c))

LiveSpec == LiveInit /\ [][LiveNext]_vars /\ Fairness

\* C23: with a worker, a setup that succeeds, evaluations that terminate and
\* fair scheduling, the promise of every call made is eventually settled.
C23_EventuallySettled ==
  \A c \in Calls : (c <= nCalls) ~> Settled(c)

\* all calls were pending together, both handlers ran the setup, and all
\* promises have settled
C23_Witness ==
  /\ nCalls = MaxCalls
  /\ setupBy = Calls
  /\ \A c \in Calls : Settled(c)

\* ------------------------------------------- the Python cell's run handler
MaxRuns == 2

\* what the promise of runPythonCode can be fulfilled with, as far as the
\* cell is concerned
CellResults == {<<"1">>, <<"2">>}

Runs == 1..Len(cellRuns)

\* handleCodeChange(newCode): the parent's onChange puts the code in props
handleCodeChange(newCode) ==
  /\ context # newCode
  /\ context' = newCode
  /\ UNCHANGED <<execVars, cellRuns, createCalls, consoleErrors, searchVars>>

\* the handler is invoked: it reads the props and awaits runPythonCode(context)
CellRunPythonCode ==
  /\ Len(cellRuns) < MaxRuns
  /\ cellRuns' = Append(cellRuns,
       [context |-> context, pc |-> "awaitRunPythonCode",
        run |-> "pending", result |-> <<>>, create |-> "none"])
  /\ UNCHANGED <<execVars, context, createCalls, consoleErrors, searchVars>>

\* variant: there is no catch block and the rejection leaves the handler
catch_Rethrow(r) == [cellRuns[r] EXCEPT !.pc = "threw"]

\* catch (error) { console.error(...) }: the handler returns normally
catch(r) == [cellRuns[r] EXCEPT !.pc = "returned"]

\* await runPythonCode(context) is fulfilled: the handler calls
\* createQueryExecution(context, 0, cellId, { docId, result }) and awaits it
RunPythonCodeFulfils(r, result) ==
  /\ cellRuns[r].pc = "awaitRunPythonCode"
  /\ cellRuns' = [cellRuns EXCEPT ![r] =
       [@ EXCEPT !.pc = "awaitCreateQueryExecution", !.run = "fulfilled",
                 !.result = result, !.create = "pending"]]
  /\ createCalls' = Append(createCalls,
       [run |-> r, query |-> cellRuns[r].context, engineId |-> 0, result |-> result])
  /\ UNCHANGED <<execVars, context, consoleErrors, searchVars>>

\* await runPythonCode(context) is rejected: control goes to the catch block
RunPythonCodeRejects(r) ==
  /\ cellRuns[r].pc = "awaitRunPythonCode"
  /\ cellRuns' = [cellRuns EXCEPT ![r] = [catch(r) EXCEPT !.run = "rejected"]]
  /\ consoleErrors' = consoleErrors + 1
  /\ UNCHANGED <<execVars, context, createCalls, searchVars>>

\* await createQueryExecution(...) is fulfilled: the handler returns
CreateQueryExecutionFulfils(r) ==
  /\ cellRuns[r].pc = "awaitCreateQueryExecution"
  /\ cellRuns' = [cellRuns EXCEPT ![r] =
       [@ EXCEPT !.pc = "returned", !.create = "fulfilled"]]
  /\ UNCHANGED <<execVars, context, createCalls, consoleErrors, searchVars>>

\* await createQueryExecution(...) is rejected: control goes to the catch block
CreateQueryExecutionRejects(r) ==
  /\ cellRuns[r].pc = "awaitCreateQueryExecution"
  /\ cellRuns' = [cellRuns EXCEPT ![r] = [catch(r) EXCEPT !.create = "rejected"]]
  /\ consoleErrors' = consoleErrors + 1
  /\ UNCHANGED <<execVars, context, createCalls, searchVars>>

CellInit == Init /\ pyodideWorker = "Worker"

CellNext ==
  \/ \E newCode \in Programs : handleCodeChange(newCode)
  \/ CellRunPythonCode
  \/ \E r \in Runs, result \in CellResults : RunPythonCodeFulfils(r, result)
  \/ \E r \in Runs : RunPythonCodeRejects(r)
  \/ \E r \in Runs : CreateQueryExecutionFulfils(r)
  \/ \E r \in Runs : CreateQueryExecutionRejects(r)

CellSpec == CellInit /\ [][CellNext]_vars

\* C25: every call of createQueryExecution belongs to an invocation whose
\* runPythonCode was fulfilled and passes that result and that code; an
\* invocation whose runPythonCode was rejected, or is pending, has made no
\* call; a fulfilled one has made exactly one; no invocation ends by
\* throwing, and each rejection it met was logged.
C25_CreateOnlyAfterFulfilled ==
  /\ \A k \in 1..Len(createCalls) :
       LET e == createCalls[k]
       IN /\ cellRuns[e.run].run = "fulfilled"
          /\ e.result = cellRuns[e.run].result
          /\ e.query = cellRuns[e.run].context
          /\ e.engineId = 0
  /\ \A r \in Runs :
       Cardinality({k \in 1..Len(createCalls) : createCalls[k].run = r})
         = IF cellRuns[r].run = "fulfilled" THEN 1 ELSE 0
  /\ \A r \in Runs : cellRuns[r].pc # "threw"
  /\ \A r \in Runs :
       (cellRuns[r].run = "rejected" \/ cellRuns[r].create = "rejected")
         => cellRuns[r].pc = "returned"
  /\ consoleErrors =
       Cardinality({r \in Runs :
         cellRuns[r].run = "rejected" \/ cellRuns[r].create = "rejected"})

\* one invocation met a rejected runPythonCode, another a fulfilled one and
\* then a rejected createQueryExecution; both have returned
C25_Witness ==
  \E r, q \in Runs :
    /\ cellRuns[r].run = "rejected" /\ cellRuns[r].pc = "returned"
    /\ cellRuns[q].run = "fulfilled" /\ cellRuns[q].create = "rejected"
    /\ cellRuns[q].pc = "returned"
    /\ Len(createCalls) = 1

\* ------------------------------------------- search and replace: the state
MaxResults == 3
MaxDelta == 5

SearchStrings == {"", "a"}
Deltas == (0 - MaxDelta)..MaxDelta

\* a list of n search results; the k-th result is written k
ResultList(n) == [k \in 1..n |-> k]

\* array[i] of JavaScript, i counted from 0: undefined outside the array
ItemAt(results, i) ==
  IF i >= 0 /\ i < Len(results) THEN <<results[i + 1]>> ELSE <<>>

\* a % b of JavaScript for b > 0: the remainder has the sign of a
Remainder(a, b) == IF a >= 0 THEN a % b ELSE 0 - ((0 - a) % b)

\* (newIndex < 0 ? newIndex + resultLen : newIndex) % resultLen
ClipIndex(currIndex, delta, resultLen) ==
  LET newIndex == currIndex + delta
  IN Remainder(IF newIndex < 0 THEN newIndex + resultLen ELSE newIndex, resultLen)

Op(name, delta) == [op |-> name, delta |-> delta, before |-> searchState]

\* reset()
reset ==
  /\ searchState' = initialSearchState
  /\ lastOp' = Op("reset", 0)
  /\ UNCHANGED <<execVars, cellVars, jumped>>

\* performSearch(isActiveSearch) while the bar is showing: the results of
\* getSearchResults replace the old ones and the index is kept
performSearch(n, isActiveSearch) ==
  /\ searchState' = [searchState EXCEPT !.searchResults = ResultList(n)]
  /\ jumped' = IF isActiveSearch
               THEN ItemAt(ResultList(n), searchState.currentSearchResultIndex)
               ELSE jumped
  /\ lastOp' = Op("performSearch", 0)
  /\ UNCHANGED <<execVars, cellVars>>

\* onSearchStringChange(searchString)
onSearchStringChange(searchString) ==
  /\ searchState' = [searchState EXCEPT !.searchString = searchString,
                                         !.currentSearchResultIndex = 0]
  /\ lastOp' = Op("onSearchStringChange", 0)
  /\ UNCHANGED <<execVars, cellVars, jumped>>

\* moveResultIndex(delta)
moveResultIndex(delta) ==
  LET resultLen == Len(searchState.searchResults)
      currIndex == searchState.currentSearchResultIndex
      newIndex == ClipIndex(currIndex, delta, resultLen)
  IN /\ IF resultLen = 0
        THEN UNCHANGED <<searchState, jumped>>
        ELSE /\ jumped' = ItemAt(searchState.searchResults, newIndex)
             /\ searchState' = [searchState EXCEPT !.currentSearchResultIndex = newIndex]
     /\ lastOp' = Op("moveResultIndex", delta)
     /\ UNCHANGED <<execVars, cellVars>>

SearchInit == Init /\ pyodideWorker = "Worker"

SearchNext ==
  \/ reset
  \/ \E n \in 0..MaxResults, isActiveSearch \in BOOLEAN : performSearch(n, isActiveSearch)
  \/ \E searchString \in SearchStrings : onSearchStringChange(searchString)
  \/ \E delta \in Deltas : moveResultIndex(delta)

SearchSpec == SearchInit /\ [][SearchNext]_vars

\* C26: after moveResultIndex(delta) on a non-empty result list the current
\* index lies in [0, searchResults.length); on an empty list the search
\* state is what it was before.
C26_IndexClipped ==
  lastOp.op = "moveResultIndex" =>
    IF lastOp.before.searchResults # <<>>
    THEN /\ searchState.currentSearchResultIndex >= 0
         /\ searchState.currentSearchResultIndex < Len(searchState.searchResults)
    ELSE searchState = lastOp.before
====
